---- MODULE Spec2Model ----
(***************************************************************************)
(* CartesianMotionController (cartesian_motion_controller.hpp).            *)
(*                                                                         *)
(* Numbers.  Lengths are whole units, so max_distance (1.0) is 1.  Angles  *)
(* are milliradians, so max_angle (1.0 rad) is 1000 and Pi is 3142.        *)
(* Positions lie on the x axis of the base frame and orientations are the  *)
(* identity and the half turns about the coordinate axes: on these values  *)
(* every norm, unit vector, quaternion and rotation matrix is an integer   *)
(* and the arithmetic below is exact.                                      *)
(* The all-NaN quaternion and the all-NaN rotation matrix are represented  *)
(* by the zero quaternion QNaN and the zero matrix RNaN: like NaN they are *)
(* absorbing under the products used here, and no unit quaternion yields   *)
(* them.  A Vector6D carries a flag nan for NaN rotational components.     *)
(***************************************************************************)
EXTENDS Integers, Sequences, FiniteSets, TLC

\* ------------------------------------------------------------- bounds
\* the solver reports, and the target messages carry, the first NumPoses
\* poses of PoseList
NumPoses == 3
\* the twist samples are the first NumTwists entries of TwistList
NumTwists == 2
\* the configured iteration count m_iterations is in 1..MaxIterations
MaxIterations == 2
MaxReach == 2

\* ------------------------------------------------- program constants
\* line 171: const double max_angle = 1.0 (milliradians)
max_angle == 1000
\* line 172: const double max_distance = 1.0
max_distance == 1
\* line 164: angles within [0,Pi) (milliradians)
PI == 3142
\* Base::m_robot_base_link, the configured base frame
m_robot_base_link == "base_link"

\* ------------------------------------------------------ KDL::Vector
Dot(a, b) == a[1] * b[1] + a[2] * b[2] + a[3] * b[3]
VAdd(a, b) == <<a[1] + b[1], a[2] + b[2], a[3] + b[3]>>
VSub(a, b) == <<a[1] - b[1], a[2] - b[2], a[3] - b[3]>>
VScale(a, k) == <<a[1] * k, a[2] * k, a[3] * k>>
VDiv(a, k) == <<a[1] \div k, a[2] \div k, a[3] \div k>>
ZeroVec == <<0, 0, 0>>

ISqrt(n) == CHOOSE r \in 0..n : r * r <= n /\ (r + 1) * (r + 1) > n

Norm(v) == ISqrt(Dot(v, v))

\* KDL::Vector::Normalize(): the unit vector and the old norm; a zero
\* vector becomes (1,0,0) and 0 is returned.
Normalize(v) ==
  LET n == Norm(v)
  IN  IF n = 0 THEN [vec |-> <<1, 0, 0>>, norm |-> 0]
               ELSE [vec |-> VDiv(v, n), norm |-> n]

\* a clamp that enforces the lower bound only
clamp_NoUpper(val, lo, hi) == IF val < lo THEN lo ELSE val

\* boost::algorithm::clamp(val, lo, hi)
clamp(val, lo, hi) == IF val < lo THEN lo ELSE IF hi < val THEN hi ELSE val

\* ---------------------------------------------------- KDL::Rotation
Identity == <<<<1, 0, 0>>, <<0, 1, 0>>, <<0, 0, 1>>>>
RotX180 == <<<<1, 0, 0>>, <<0, -1, 0>>, <<0, 0, -1>>>>
RotY180 == <<<<-1, 0, 0>>, <<0, 1, 0>>, <<0, 0, -1>>>>
RotZ180 == <<<<-1, 0, 0>>, <<0, -1, 0>>, <<0, 0, 1>>>>
RNaN == <<<<0, 0, 0>>, <<0, 0, 0>>, <<0, 0, 0>>>>

Col(A, c) == <<A[1][c], A[2][c], A[3][c]>>

\* Rotation operator*
RotMul(A, B) ==
  <<<<Dot(A[1], Col(B, 1)), Dot(A[1], Col(B, 2)), Dot(A[1], Col(B, 3))>>,
    <<Dot(A[2], Col(B, 1)), Dot(A[2], Col(B, 2)), Dot(A[2], Col(B, 3))>>,
    <<Dot(A[3], Col(B, 1)), Dot(A[3], Col(B, 2)), Dot(A[3], Col(B, 3))>>>>

\* Rotation::Inverse(): the transpose
RotInverse(A) == <<Col(A, 1), Col(A, 2), Col(A, 3)>>

\* KDL::Rotation::Quaternion(x, y, z, w): no normalisation
RotQuaternion(q) ==
  LET x == q.x  y == q.y  z == q.z  w == q.w
      x2 == x * x  y2 == y * y  z2 == z * z  w2 == w * w
  IN  <<<<w2 + x2 - y2 - z2, 2 * x * y - 2 * w * z, 2 * x * z + 2 * w * y>>,
        <<2 * x * y + 2 * w * z, w2 - x2 + y2 - z2, 2 * y * z - 2 * w * x>>,
        <<2 * x * z - 2 * w * y, 2 * y * z + 2 * w * x, w2 - x2 - y2 + z2>>>>

\* Rotation::GetQuaternion(x, y, z, w), by the sign of the trace and the
\* largest diagonal entry
GetQuaternion(M) ==
  LET trace == M[1][1] + M[2][2] + M[3][3]
  IN  IF trace > 0
      THEN LET r == ISqrt(trace + 1)
           IN  [x |-> (M[3][2] - M[2][3]) \div (2 * r),
                y |-> (M[1][3] - M[3][1]) \div (2 * r),
                z |-> (M[2][1] - M[1][2]) \div (2 * r),
                w |-> r \div 2]
      ELSE IF M[1][1] > M[2][2] /\ M[1][1] > M[3][3]
      THEN LET s == 2 * ISqrt(1 + M[1][1] - M[2][2] - M[3][3])
           IN  [x |-> s \div 4,
                y |-> (M[1][2] + M[2][1]) \div s,
                z |-> (M[1][3] + M[3][1]) \div s,
                w |-> (M[3][2] - M[2][3]) \div s]
      ELSE IF M[2][2] > M[3][3]
      THEN LET s == 2 * ISqrt(1 + M[2][2] - M[1][1] - M[3][3])
           IN  [x |-> (M[1][2] + M[2][1]) \div s,
                y |-> s \div 4,
                z |-> (M[2][3] + M[3][2]) \div s,
                w |-> (M[1][3] - M[3][1]) \div s]
      ELSE LET s == 2 * ISqrt(1 + M[3][3] - M[1][1] - M[2][2])
           IN  [x |-> (M[1][3] + M[3][1]) \div s,
                y |-> (M[2][3] + M[3][2]) \div s,
                z |-> s \div 4,
                w |-> (M[2][1] - M[1][2]) \div s]

\* Rotation::GetRotAngle(axis): the angle in [0, Pi] and the unit axis;
\* the identity gives angle 0 about (0,0,1), a half turn gives Pi about
\* the axis with non-negative components, NaN entries give NaN.
GetRotAngle(M) ==
  LET trace == M[1][1] + M[2][2] + M[3][3]
  IN  CASE M = RNaN -> [axis |-> ZeroVec, angle |-> 0, nan |-> TRUE]
        [] trace = 3 -> [axis |-> <<0, 0, 1>>, angle |-> 0, nan |-> FALSE]
        [] trace = -1 ->
             [axis |-> <<ISqrt((M[1][1] + 1) \div 2),
                         ISqrt((M[2][2] + 1) \div 2),
                         ISqrt((M[3][3] + 1) \div 2)>>,
              angle |-> PI, nan |-> FALSE]

\* ---------------------------------------------------- tf::Quaternion
QNaN == [x |-> 0, y |-> 0, z |-> 0, w |-> 0]
QIdentity == [x |-> 0, y |-> 0, z |-> 0, w |-> 1]
QNeg(q) == [x |-> -q.x, y |-> -q.y, z |-> -q.z, w |-> -q.w]
QLength2(q) == q.x * q.x + q.y * q.y + q.z * q.z + q.w * q.w

\* tf::quaternionMsgToTF: a quaternion that is not of unit length is
\* normalised (the messages here are unit or zero; 0/0 is NaN)
quaternionMsgToTF(q) == IF QLength2(q) = 1 THEN q ELSE QNaN

\* cos and sin of half the angle, for the angles 0 and Pi
HalfCos(a) == IF a = 0 THEN 1 ELSE 0
HalfSin(a) == IF a = 0 THEN 0 ELSE 1

\* tf::Quaternion::setRPY(roll, pitch, yaw)
setRPY(roll, pitch, yaw) ==
  LET cr == HalfCos(roll)   sr == HalfSin(roll)
      cp == HalfCos(pitch)  sp == HalfSin(pitch)
      cy == HalfCos(yaw)    sy == HalfSin(yaw)
  IN  [x |-> sr * cp * cy - cr * sp * sy,
       y |-> cr * sp * cy + sr * cp * sy,
       z |-> cr * cp * sy - sr * sp * cy,
       w |-> cr * cp * cy + sr * sp * sy]

\* tf::Quaternion operator*
QuatMul(a, b) ==
  [x |-> a.w * b.x + a.x * b.w + a.y * b.z - a.z * b.y,
   y |-> a.w * b.y + a.y * b.w + a.z * b.x - a.x * b.z,
   z |-> a.w * b.z + a.z * b.w + a.x * b.y - a.y * b.x,
   w |-> a.w * b.w - a.x * b.x - a.y * b.y - a.z * b.z]

\* tf::poseKDLToMsg
poseKDLToMsg(k) == [position |-> k.p, orientation |-> GetQuaternion(k.M)]

\* ------------------------------------------------------- value sets
\* KDL::Frame() and geometry_msgs::Pose(): the default-constructed values
DefaultFrame == [M |-> Identity, p |-> ZeroVec]
DefaultPose == [position |-> ZeroVec, orientation |-> QNaN]

PoseList ==
  <<[M |-> Identity, p |-> <<0, 0, 0>>],
    [M |-> RotX180, p |-> <<1, 0, 0>>],
    [M |-> Identity, p |-> <<2, 0, 0>>],
    [M |-> RotZ180, p |-> <<1, 0, 0>>],
    [M |-> RotY180, p |-> <<0, 0, 0>>]>>

\* the end-effector poses the forward-dynamics solver can report
SolverPoses == {PoseList[k] : k \in 1..NumPoses}

\* geometry_msgs::PoseStamped targets: each pose under either sign of its
\* quaternion, in the base frame or in another one
FrameIds == {m_robot_base_link, "world"}
TargetMsgs ==
  {[frame_id |-> id, position |-> P.p,
    orientation |-> IF neg THEN QNeg(GetQuaternion(P.M)) ELSE GetQuaternion(P.M)] :
     id \in FrameIds, P \in SolverPoses, neg \in BOOLEAN}

\* geometry_msgs::Twist samples
TwistList ==
  <<[linear |-> <<1, 0, 0>>, angular |-> ZeroVec],
    [linear |-> ZeroVec, angular |-> <<PI, 0, 0>>],
    [linear |-> <<1, 0, 0>>, angular |-> <<0, 0, PI>>],
    [linear |-> <<-1, 0, 0>>, angular |-> <<0, PI, 0>>]>>
Twists == {TwistList[k] : k \in 1..NumTwists}

ZeroError == [lin |-> ZeroVec, ang |-> ZeroVec, nan |-> FALSE]
NoErrorKdl == [M |-> Identity, p |-> ZeroVec]

\* ------------------------------------------------------------ state
VARIABLES
  state,            \* lifecycle: "Uninitialized", "Idle", "Running"
  hw,               \* the HardwareInterface the controller is instantiated for
  m_iterations,     \* Base::m_iterations
  solver_pose,      \* Base::m_forward_dynamics_solver.getEndEffectorPose()
  m_current_frame,
  m_target_frame,
  current_pose,     \* current_pose.pose, the published snapshot
  pc,               \* the control thread's position
  i,                \* update's loop counter
  error_kdl,        \* computeMotionError's local
  error,            \* update's local
  ctl_todo,         \* fields a control-thread copy has still to write
  cb_pc,            \* the callback thread's position
  cb_frame,         \* the KDL::Frame temporary a callback assigns
  cb_todo,          \* fields of m_target_frame the callback has still to write
  tw_pc,            \* position of a twist callback dispatched on a thread of its own
  tw_frame,         \* the KDL::Frame temporary it assigns
  tw_todo,          \* fields of m_target_frame it has still to write
  tgt_src,          \* per field of m_target_frame, the thread that wrote it
  hist              \* history of the current control cycle and of the run

cfgVars == <<hw, m_iterations>>
ctlLocals == <<i, error_kdl, error, ctl_todo>>
cbVars == <<cb_pc, cb_frame, cb_todo>>
twVars == <<tw_pc, tw_frame, tw_todo>>
vars == <<state, hw, m_iterations, solver_pose, m_current_frame, m_target_frame,
          current_pose, pc, i, error_kdl, error, ctl_todo, cb_pc, cb_frame,
          cb_todo, tw_pc, tw_frame, tw_todo, tgt_src, hist>>

HardwareInterfaces == {"PositionJointInterface", "VelocityJointInterface"}

\* the writers of m_target_frame: the control thread (constructor, starting)
\* and the callback thread
CtlWrite == "control"
CbWrite == "callback"

Init ==
  /\ state = "Uninitialized"
  /\ hw \in HardwareInterfaces
  /\ m_iterations = 0
  /\ solver_pose \in SolverPoses
  /\ m_current_frame = DefaultFrame
  /\ m_target_frame = DefaultFrame
  /\ current_pose = DefaultPose
  /\ pc = "idle"
  /\ i = 0
  /\ error_kdl = NoErrorKdl
  /\ error = ZeroError
  /\ ctl_todo = {}
  /\ cb_pc = "idle"
  /\ cb_frame = DefaultFrame
  /\ cb_todo = {}
  /\ tw_pc = "idle"
  /\ tw_frame = DefaultFrame
  /\ tw_todo = {}
  /\ tgt_src = [M |-> CtlWrite, p |-> CtlWrite]
  /\ hist = [log |-> <<>>, dirty |-> FALSE, first |-> <<>>, same |-> TRUE,
             torn |-> FALSE, rdM |-> Identity, rdMid |-> CtlWrite,
             seeded |-> FALSE, last_cb |-> "none"]

\* ------------------------------------------------- control thread
\* init(): Base::init loads the iteration count; the two subscriptions and
\* the publisher exist from here on.
init(n) ==
  /\ state = "Uninitialized"
  /\ state' = "Idle"
  /\ m_iterations' = n
  /\ hist' = [hist EXCEPT !.last_cb = "none"]
  /\ UNCHANGED <<hw, solver_pose, m_current_frame, m_target_frame, current_pose,
                 pc, ctlLocals, cbVars, twVars, tgt_src>>

\* starting() without the sample of line 97
starting_NoSample ==
  /\ state = "Idle" /\ pc = "idle"
  /\ solver_pose' \in SolverPoses
  /\ pc' = "starting"
  /\ ctl_todo' = {"M", "p"}
  /\ hist' = [hist EXCEPT !.seeded = FALSE, !.last_cb = "none"]
  /\ UNCHANGED <<state, cfgVars, m_current_frame, m_target_frame, current_pose,
                 i, error_kdl, error, cbVars, twVars, tgt_src>>

\* starting(), lines 96-97: Base::starting resets the simulation with the
\* real joint state; the end-effector pose is sampled.
starting ==
  /\ state = "Idle" /\ pc = "idle"
  /\ solver_pose' \in SolverPoses
  /\ m_current_frame' = solver_pose'
  /\ pc' = "starting"
  /\ ctl_todo' = {"M", "p"}
  /\ hist' = [hist EXCEPT !.seeded = FALSE, !.last_cb = "none"]
  /\ UNCHANGED <<state, cfgVars, m_target_frame, current_pose, i, error_kdl,
                 error, cbVars, twVars, tgt_src>>

\* line 100 copying the position only
starting_assign_PositionOnly(f) ==
  /\ pc = "starting" /\ f \in ctl_todo
  /\ m_target_frame' = [m_target_frame EXCEPT !.p = m_current_frame.p]
  /\ tgt_src' = [tgt_src EXCEPT ![f] = CtlWrite]
  /\ ctl_todo' = ctl_todo \ {f}
  /\ IF ctl_todo' = {}
     THEN /\ pc' = "idle"
          /\ state' = "Running"
          /\ m_current_frame' = DefaultFrame
          /\ hist' = [hist EXCEPT !.seeded = TRUE]
     ELSE UNCHANGED <<pc, state, m_current_frame, hist>>
  /\ UNCHANGED <<cfgVars, solver_pose, current_pose, i, error_kdl, error,
                 cbVars, twVars>>

\* starting(), line 100: m_target_frame = m_current_frame, field by field;
\* the controller is Running when the copy is complete.
\* (m_current_frame is written before it is read in every handler; it is
\* put back to its default once the handler has read it for the last time.)
starting_assign(f) ==
  /\ pc = "starting" /\ f \in ctl_todo
  /\ m_target_frame' = [m_target_frame EXCEPT ![f] = m_current_frame[f]]
  /\ tgt_src' = [tgt_src EXCEPT ![f] = CtlWrite]
  /\ ctl_todo' = ctl_todo \ {f}
  /\ IF ctl_todo' = {}
     THEN /\ pc' = "idle"
          /\ state' = "Running"
          /\ m_current_frame' = DefaultFrame
          /\ hist' = [hist EXCEPT !.seeded = TRUE]
     ELSE UNCHANGED <<pc, state, m_current_frame, hist>>
  /\ UNCHANGED <<cfgVars, solver_pose, current_pose, i, error_kdl, error,
                 cbVars, twVars>>

\* stopping(): empty
stopping ==
  /\ state = "Running" /\ pc = "idle"
  /\ state' = "Idle"
  /\ hist' = [hist EXCEPT !.seeded = FALSE, !.last_cb = "none"]
  /\ UNCHANGED <<cfgVars, solver_pose, m_current_frame, m_target_frame,
                 current_pose, pc, ctlLocals, cbVars, twVars, tgt_src>>

\* the primary template making a single pass as the specialisation does
LoopBound_AlwaysOne ==
  IF hw = "VelocityJointInterface" THEN 1 ELSE 1

\* The number of passes of update's body: the loop of lines 117-128, or
\* the single pass of the VelocityJointInterface specialisation.
LoopBound ==
  IF hw = "VelocityJointInterface" THEN 1 ELSE m_iterations

\* the loop condition as i <= m_iterations
AfterPass_OffByOne(n) == IF n <= LoopBound THEN "sample" ELSE "write"

\* where update goes after n passes: the loop condition of line 117
AfterPass(n) == IF n < LoopBound THEN "sample" ELSE "write"

\* update(): entry
update ==
  /\ state = "Running" /\ pc = "idle"
  /\ i' = 0
  /\ pc' = AfterPass(0)
  /\ hist' = [hist EXCEPT !.log = <<>>, !.dirty = FALSE, !.last_cb = "none"]
  /\ UNCHANGED <<state, cfgVars, solver_pose, m_current_frame, m_target_frame,
                 current_pose, error_kdl, error, ctl_todo, cbVars, twVars, tgt_src>>

\* line 153 taking the pose remembered from the previous computation
\* instead of the solver's
computeMotionError_sample_Remembered ==
  /\ pc = "sample"
  /\ m_current_frame' = [M |-> RotQuaternion(current_pose.orientation),
                         p |-> current_pose.position]
  /\ ctl_todo' = {"position", "orientation"}
  /\ pc' = "publish"
  /\ UNCHANGED <<state, cfgVars, solver_pose, m_target_frame, current_pose, i,
                 error_kdl, error, cbVars, twVars, tgt_src, hist>>

\* lines 154-157 run in the first pass of a cycle only
computeMotionError_sample_PublishesOnce ==
  /\ pc = "sample"
  /\ m_current_frame' = solver_pose
  /\ ctl_todo' = IF i = 0 THEN {"position", "orientation"} ELSE {}
  /\ pc' = IF i = 0 THEN "publish" ELSE "readM"
  /\ UNCHANGED <<state, cfgVars, solver_pose, m_target_frame, current_pose, i,
                 error_kdl, error, cbVars, twVars, tgt_src, hist>>

\* computeMotionError(), line 153
computeMotionError_sample ==
  /\ pc = "sample"
  /\ m_current_frame' = solver_pose
  /\ ctl_todo' = {"position", "orientation"}
  /\ pc' = "publish"
  /\ UNCHANGED <<state, cfgVars, solver_pose, m_target_frame, current_pose, i,
                 error_kdl, error, cbVars, twVars, tgt_src, hist>>

\* computeMotionError(), lines 156-157: current_pose.pose is filled field by
\* field and published
computeMotionError_publish(f) ==
  /\ pc = "publish" /\ f \in ctl_todo
  /\ current_pose' = [current_pose EXCEPT ![f] = poseKDLToMsg(m_current_frame)[f]]
  /\ ctl_todo' = ctl_todo \ {f}
  /\ pc' = IF ctl_todo' = {} THEN "readM" ELSE pc
  /\ UNCHANGED <<state, cfgVars, solver_pose, m_current_frame, m_target_frame,
                 i, error_kdl, error, cbVars, twVars, tgt_src, hist>>

\* computeMotionError(), line 160
computeMotionError_readM ==
  /\ pc = "readM"
  /\ error_kdl' = [error_kdl EXCEPT
                     !.M = RotMul(m_target_frame.M, RotInverse(m_current_frame.M))]
  /\ hist' = [hist EXCEPT !.rdM = m_target_frame.M, !.rdMid = tgt_src.M]
  /\ pc' = "readP"
  /\ UNCHANGED <<state, cfgVars, solver_pose, m_current_frame, m_target_frame,
                 current_pose, i, error, ctl_todo, cbVars, twVars, tgt_src>>

\* lines 163-189 with an error beyond the bounds discarded instead of
\* clamped
ErrorVector_DropsExcess(e) ==
  LET ra == GetRotAngle(e.M)
      nz == Normalize(e.p)
      angle == IF ra.angle > max_angle THEN 0 ELSE ra.angle
      distance == IF nz.norm > max_distance THEN 0 ELSE nz.norm
  IN  [lin |-> VScale(nz.vec, distance),
       ang |-> VScale(ra.axis, angle),
       nan |-> ra.nan]

\* computeMotionError(), lines 163-189: from error_kdl to the Vector6D
ErrorVector(e) ==
  LET ra == GetRotAngle(e.M)
      nz == Normalize(e.p)
      angle == clamp(ra.angle, -max_angle, max_angle)
      distance == clamp(nz.norm, -max_distance, max_distance)
  IN  [lin |-> VScale(nz.vec, distance),
       ang |-> VScale(ra.axis, angle),
       nan |-> ra.nan]

\* lines 161-189 pulling the target back to the clamped point
computeMotionError_readP_MovesTarget ==
  /\ pc = "readP"
  /\ LET e == [error_kdl EXCEPT !.p = VSub(m_target_frame.p, m_current_frame.p)]
         used == [M |-> hist.rdM, p |-> m_target_frame.p]
     IN  /\ error_kdl' = e
         /\ error' = ErrorVector(e)
         /\ m_target_frame' = [m_target_frame EXCEPT
                                 !.p = VAdd(m_current_frame.p, ErrorVector(e).lin)]
         /\ hist' = [hist EXCEPT
                       !.log = Append(@, "error"),
                       !.torn = hist.rdMid # tgt_src.p,
                       !.first = IF @ = <<>> THEN <<used>> ELSE @,
                       !.same = hist.first = <<>> \/ hist.first[1] = used,
                       !.rdM = Identity, !.rdMid = CtlWrite]
  /\ m_current_frame' = DefaultFrame
  /\ pc' = "fd"
  /\ UNCHANGED <<state, cfgVars, solver_pose, current_pose, i,
                 ctl_todo, cbVars, twVars, tgt_src>>

\* computeMotionError(), lines 161-189
computeMotionError_readP ==
  /\ pc = "readP"
  /\ LET e == [error_kdl EXCEPT !.p = VSub(m_target_frame.p, m_current_frame.p)]
         used == [M |-> hist.rdM, p |-> m_target_frame.p]
     IN  /\ error_kdl' = e
         /\ error' = ErrorVector(e)
         /\ hist' = [hist EXCEPT
                       !.log = Append(@, "error"),
                       !.torn = hist.rdMid # tgt_src.p,
                       !.first = IF @ = <<>> THEN <<used>> ELSE @,
                       !.same = hist.first = <<>> \/ hist.first[1] = used,
                       !.rdM = Identity, !.rdMid = CtlWrite]
  /\ m_current_frame' = DefaultFrame
  /\ pc' = "fd"
  /\ UNCHANGED <<state, cfgVars, solver_pose, m_target_frame, current_pose, i,
                 ctl_todo, cbVars, twVars, tgt_src>>

\* the loop body with the write-back of line 131 moved inside it
computeJointControlCmds_Commits ==
  /\ pc = "fd"
  /\ solver_pose' \in SolverPoses
  /\ i' = i + 1
  /\ pc' = AfterPass(i + 1)
  /\ error' = ZeroError
  /\ error_kdl' = NoErrorKdl
  /\ hist' = [hist EXCEPT !.log = Append(Append(@, "fd"), "write"),
                          !.seeded = FALSE, !.same = TRUE, !.torn = FALSE]
  /\ UNCHANGED <<state, cfgVars, m_current_frame, m_target_frame, current_pose,
                 ctl_todo, cbVars, twVars, tgt_src>>

\* Base::computeJointControlCmds(error, internal_period), lines 127 and 143:
\* the forward-dynamics step advances the solver's internal model.
computeJointControlCmds ==
  /\ pc = "fd"
  /\ solver_pose' \in SolverPoses
  /\ i' = i + 1
  /\ pc' = AfterPass(i + 1)
  /\ error' = ZeroError
  /\ error_kdl' = NoErrorKdl
  /\ hist' = [hist EXCEPT !.log = Append(@, "fd"), !.seeded = FALSE,
                          !.same = TRUE, !.torn = FALSE]
  /\ UNCHANGED <<state, cfgVars, m_current_frame, m_target_frame, current_pose,
                 ctl_todo, cbVars, twVars, tgt_src>>

\* The forward-dynamics step as a solver that settles: the internal model
\* moves toward the target by the error it is fed.  (Translation only: the
\* step is used for poses that differ in position.)
advance(pose, err) == [M |-> pose.M, p |-> VAdd(pose.p, err.lin)]

\* the poses of a model that settles along the x axis
SettlePoses == {[M |-> Identity, p |-> <<x, 0, 0>>] : x \in 0..MaxReach}

\* Base::computeJointControlCmds(error, internal_period), lines 127 and 143,
\* with the solver that settles
computeJointControlCmds_settling ==
  /\ pc = "fd"
  /\ error.ang = ZeroVec /\ ~error.nan
  /\ solver_pose' = advance(solver_pose, error)
  /\ i' = i + 1
  /\ pc' = AfterPass(i + 1)
  /\ error' = ZeroError
  /\ error_kdl' = NoErrorKdl
  /\ hist' = [hist EXCEPT !.log = Append(@, "fd"), !.seeded = FALSE,
                          !.same = TRUE, !.torn = FALSE]
  /\ UNCHANGED <<state, cfgVars, m_current_frame, m_target_frame, current_pose,
                 ctl_todo, cbVars, twVars, tgt_src>>

\* Base::writeJointControlCmds(), lines 131 and 145; update returns
writeJointControlCmds ==
  /\ pc = "write"
  /\ pc' = "idle"
  /\ i' = 0
  /\ hist' = [hist EXCEPT !.log = Append(@, "write"), !.first = <<>>,
                          !.dirty = FALSE]
  /\ UNCHANGED <<state, cfgVars, solver_pose, m_current_frame, m_target_frame,
                 current_pose, error_kdl, error, ctl_todo, cbVars, twVars, tgt_src>>

\* ------------------------------------------------ callback thread
\* targetFrameCallback(), lines 204-213: the KDL::Frame built from the
\* message, ready to be assigned
acceptTargetFrame(target) ==
  /\ cb_frame' = [M |-> RotQuaternion(target.orientation),
                  p |-> target.position]
  /\ cb_pc' = "assign"
  /\ cb_todo' = {"M", "p"}
  /\ hist' = [hist EXCEPT !.last_cb = "frame"]

\* targetFrameCallback() without the check of line 196
targetFrameCallback_NoFrameCheck(target) ==
  /\ state # "Uninitialized" /\ cb_pc = "idle"
  /\ acceptTargetFrame(target)
  /\ UNCHANGED <<state, cfgVars, solver_pose, m_current_frame, m_target_frame,
                 current_pose, pc, ctlLocals, twVars, tgt_src>>

\* targetFrameCallback(), lines 196-213 up to the assignment; the warning
\* of line 198 is the only effect of a message in another frame
targetFrameCallback(target) ==
  /\ state # "Uninitialized" /\ cb_pc = "idle"
  /\ IF target.frame_id # m_robot_base_link
     THEN /\ hist' = [hist EXCEPT !.last_cb = "rejected"]
          /\ UNCHANGED cbVars
     ELSE acceptTargetFrame(target)
  /\ UNCHANGED <<state, cfgVars, solver_pose, m_current_frame, m_target_frame,
                 current_pose, pc, ctlLocals, twVars, tgt_src>>

\* lines 220-231 without the additions of lines 221-223
TwistTarget_NoLinear(snapshot, twist) ==
  LET temp1 == quaternionMsgToTF(snapshot.orientation)
      temp2 == setRPY(twist.angular[1], twist.angular[2], twist.angular[3])
  IN  [position |-> snapshot.position,
       orientation |-> QuatMul(temp2, temp1)]

\* targetTwistCallback(), lines 220-231: the geometry_msgs::Pose target
TwistTarget(snapshot, twist) ==
  LET temp1 == quaternionMsgToTF(snapshot.orientation)
      temp2 == setRPY(twist.angular[1], twist.angular[2], twist.angular[3])
  IN  [position |-> VAdd(snapshot.position, twist.linear),
       orientation |-> QuatMul(temp2, temp1)]

\* targetTwistCallback(), lines 220-251 up to the assignment
targetTwistCallback(twist) ==
  /\ state # "Uninitialized" /\ cb_pc = "idle"
  /\ LET target == TwistTarget(current_pose, twist)
     IN  cb_frame' = [M |-> RotQuaternion(target.orientation),
                      p |-> target.position]
  /\ cb_pc' = "assign"
  /\ cb_todo' = {"M", "p"}
  /\ hist' = [hist EXCEPT !.last_cb = "twist"]
  /\ UNCHANGED <<state, cfgVars, solver_pose, m_current_frame, m_target_frame,
                 current_pose, pc, ctlLocals, twVars, tgt_src>>

\* the assignment replacing the position only
assignTargetFrame_PositionOnly(f) ==
  /\ cb_pc = "assign" /\ f \in cb_todo
  /\ m_target_frame' = [m_target_frame EXCEPT !.p = cb_frame.p]
  /\ tgt_src' = [tgt_src EXCEPT ![f] = CbWrite]
  /\ cb_todo' = cb_todo \ {f}
  /\ IF cb_todo' = {}
     THEN cb_pc' = "idle" /\ cb_frame' = DefaultFrame
     ELSE UNCHANGED <<cb_pc, cb_frame>>
  /\ hist' = [hist EXCEPT !.dirty = @ \/ pc \in {"sample", "publish", "readM",
                                                  "readP", "fd", "write"},
                          !.seeded = FALSE]
  /\ UNCHANGED <<state, cfgVars, solver_pose, m_current_frame, current_pose,
                 pc, ctlLocals, twVars>>

\* the assignment to m_target_frame of lines 204 and 242, field by field;
\* the callback returns when the copy is complete.
assignTargetFrame(f) ==
  /\ cb_pc = "assign" /\ f \in cb_todo
  /\ m_target_frame' = [m_target_frame EXCEPT ![f] = cb_frame[f]]
  /\ tgt_src' = [tgt_src EXCEPT ![f] = CbWrite]
  /\ cb_todo' = cb_todo \ {f}
  /\ IF cb_todo' = {}
     THEN cb_pc' = "idle" /\ cb_frame' = DefaultFrame
     ELSE UNCHANGED <<cb_pc, cb_frame>>
  /\ hist' = [hist EXCEPT !.dirty = @ \/ pc \in {"sample", "publish", "readM",
                                                  "readP", "fd", "write"},
                          !.seeded = FALSE]
  /\ UNCHANGED <<state, cfgVars, solver_pose, m_current_frame, current_pose,
                 pc, ctlLocals, twVars>>

\* The two subscriptions of lines 74-84 are served by whatever threads spin
\* the node's callback queue; with more than one, a twist callback runs on
\* a thread of its own while targetFrameCallback runs on another.
TwWrite == "twist"

\* targetTwistCallback(), lines 220-251 up to the assignment, on its own
\* thread
targetTwistCallback_ownThread(twist) ==
  /\ state # "Uninitialized" /\ tw_pc = "idle"
  /\ LET target == TwistTarget(current_pose, twist)
     IN  tw_frame' = [M |-> RotQuaternion(target.orientation),
                      p |-> target.position]
  /\ tw_pc' = "assign"
  /\ tw_todo' = {"M", "p"}
  /\ hist' = [hist EXCEPT !.last_cb = "twist"]
  /\ UNCHANGED <<state, cfgVars, solver_pose, m_current_frame, m_target_frame,
                 current_pose, pc, ctlLocals, cbVars, tgt_src>>

\* the assignment of line 242, field by field, on its own thread; tw_frame
\* keeps the value assigned until the next twist
assignTargetFrame_ownThread(f) ==
  /\ tw_pc = "assign" /\ f \in tw_todo
  /\ m_target_frame' = [m_target_frame EXCEPT ![f] = tw_frame[f]]
  /\ tgt_src' = [tgt_src EXCEPT ![f] = TwWrite]
  /\ tw_todo' = tw_todo \ {f}
  /\ tw_pc' = IF tw_todo' = {} THEN "idle" ELSE tw_pc
  /\ UNCHANGED tw_frame
  /\ hist' = [hist EXCEPT !.seeded = FALSE]
  /\ UNCHANGED <<state, cfgVars, solver_pose, m_current_frame, current_pose,
                 pc, ctlLocals, cbVars>>

\* -------------------------------------------------- specifications
ControlStep ==
  \/ \E n \in 1..MaxIterations : init(n)
  \/ starting
  \/ \E f \in {"M", "p"} : starting_assign(f)
  \/ stopping
  \/ update
  \/ computeMotionError_sample
  \/ \E f \in {"position", "orientation"} : computeMotionError_publish(f)
  \/ computeMotionError_readM
  \/ computeMotionError_readP
  \/ computeJointControlCmds
  \/ writeJointControlCmds

CallbackStep ==
  \/ \E target \in TargetMsgs : targetFrameCallback(target)
  \/ \E twist \in Twists : targetTwistCallback(twist)
  \/ \E f \in {"M", "p"} : assignTargetFrame(f)

\* Handlers run one at a time: a callback is dispatched only between the
\* control thread's calls, and the control thread is called only between
\* callbacks.
Next ==
  \/ cb_pc = "idle" /\ ControlStep
  \/ pc = "idle" /\ CallbackStep

Spec == Init /\ [][Next]_vars

\* The callback thread runs concurrently with the control thread: no lock
\* or atomic guards m_target_frame or current_pose.
NextRace ==
  \/ ControlStep
  \/ CallbackStep

SpecRace == Init /\ [][NextRace]_vars

\* The two producers run on two threads of the callback queue, concurrently
\* with each other; the control thread is called between callbacks.
FrameProducerStep ==
  \/ \E target \in TargetMsgs : targetFrameCallback(target)
  \/ \E f \in {"M", "p"} : assignTargetFrame(f)

TwistProducerStep ==
  \/ \E twist \in Twists : targetTwistCallback_ownThread(twist)
  \/ \E f \in {"M", "p"} : assignTargetFrame_ownThread(f)

NextProducers ==
  \/ cb_pc = "idle" /\ tw_pc = "idle" /\ ControlStep
  \/ pc = "idle" /\ FrameProducerStep
  \/ pc = "idle" /\ TwistProducerStep

SpecProducers == Init /\ [][NextProducers]_vars

\* The controller with the solver that settles: the robot is started at a
\* pose on the x axis, targets are pose messages on the x axis, handlers
\* run one at a time.
SettleMsgs ==
  {[frame_id |-> id, position |-> P.p, orientation |-> GetQuaternion(P.M)] :
     id \in FrameIds, P \in SettlePoses}

UpdateStep ==
  \/ update
  \/ computeMotionError_sample
  \/ \E f \in {"position", "orientation"} : computeMotionError_publish(f)
  \/ computeMotionError_readM
  \/ computeMotionError_readP
  \/ computeJointControlCmds_settling
  \/ writeJointControlCmds

LifecycleStep ==
  \/ \E n \in 1..MaxIterations : init(n)
  \/ starting /\ solver_pose' \in SettlePoses
  \/ \E f \in {"M", "p"} : starting_assign(f)
  \/ stopping

NextSettle ==
  \/ cb_pc = "idle" /\ LifecycleStep
  \/ cb_pc = "idle" /\ UpdateStep
  \/ pc = "idle" /\ \E target \in SettleMsgs : targetFrameCallback(target)
  \/ pc = "idle" /\ \E f \in {"M", "p"} : assignTargetFrame(f)

\* update() is called again and again by the periodic scheduler and is not
\* starved by callbacks; a callback that has started returns.
SpecSettle ==
  /\ Init
  /\ [][NextSettle]_vars
  /\ SF_vars(cb_pc = "idle" /\ UpdateStep)
  /\ WF_vars(\E f \in {"M", "p"} : assignTargetFrame(f))

\* ------------------------------------------------------------ claims
InCycle == {"sample", "publish", "readM", "readP", "fd", "write"}

Count(ev, log) == Cardinality({k \in 1..Len(log) : log[k] = ev})

\* C1: a target pose whose frame_id is not the base frame leaves
\* m_target_frame as it was, starts no assignment, changes neither the
\* lifecycle state nor the control thread's position, and commits no joint
\* command.
C1_WrongFrameIsNoOp ==
  [][\A target \in TargetMsgs :
       (target.frame_id # m_robot_base_link /\ targetFrameCallback(target))
         => /\ m_target_frame' = m_target_frame
            /\ tgt_src' = tgt_src
            /\ cb_pc' = "idle"
            /\ state' = state
            /\ pc' = pc
            /\ hist'.log = hist.log]_vars

\* a message in another frame has been dropped while the controller runs
\* with a target that is not the default one
C1_Witness ==
  /\ hist.last_cb = "rejected"
  /\ state = "Running"
  /\ m_target_frame # DefaultFrame

\* the rotation about the base axes that roll, pitch and yaw (each 0 or Pi)
\* describe: Rz(yaw) * Ry(pitch) * Rx(roll)
HalfTurn(a, R) == IF a = 0 THEN Identity ELSE R
RpyRotation(rpy) ==
  RotMul(HalfTurn(rpy[3], RotZ180),
         RotMul(HalfTurn(rpy[2], RotY180), HalfTurn(rpy[1], RotX180)))

C3_StartSeedsZeroError ==
  hist.seeded =>
    /\ m_target_frame = solver_pose
    /\ ErrorVector([M |-> RotMul(m_target_frame.M, RotInverse(solver_pose.M)),
                    p |-> VSub(m_target_frame.p, solver_pose.p)]) = ZeroError
    /\ (pc = "fd" => error = ZeroError)

\* the first error after a start at a pose that is not the default one
C3_Witness ==
  /\ hist.seeded
  /\ pc = "fd"
  /\ solver_pose = PoseList[2]

\* C4 (as claimed): every error handed to the forward-dynamics step has a
\* translation of length <= max_distance and a rotation vector of length
\* <= max_angle.
Bounded(e) ==
  /\ ~e.nan
  /\ Dot(e.lin, e.lin) <= max_distance * max_distance
  /\ Dot(e.ang, e.ang) <= max_angle * max_angle
C4_ErrorBounded == pc = "fd" => Bounded(error)

\* C5: within a cycle nothing is committed before the last pass has run;
\* a finished cycle has committed exactly once, as its last event, after
\* all its forward-dynamics steps.
C5_CommitOnceAfterPasses ==
  /\ (pc \in InCycle) => Count("write", hist.log) = 0
  /\ (pc = "write") => Count("fd", hist.log) = LoopBound
  /\ (pc = "idle" /\ hist.log # <<>>)
       => /\ Count("write", hist.log) = 1
          /\ hist.log[Len(hist.log)] = "write"

\* an iterative cycle of two passes has finished
C5_Witness ==
  /\ pc = "idle"
  /\ hw = "PositionJointInterface"
  /\ m_iterations = 2
  /\ Len(hist.log) = 5

\* C6 (as claimed): the rotation and the position one computeMotionError
\* uses come from the same write of m_target_frame.
C6_AtomicTargetSnapshot == pc = "fd" => ~hist.torn

\* C7 (as claimed): every pass of one update() uses the same target.
C7_TargetReadOncePerCycle == pc = "fd" => hist.same

\* the rotation of v by the unit quaternion q: q v q*
QuatRotate(q, v) ==
  LET qv == [x |-> v[1], y |-> v[2], z |-> v[3], w |-> 0]
      qc == [x |-> -q.x, y |-> -q.y, z |-> -q.z, w |-> q.w]
      r == QuatMul(QuatMul(q, qv), qc)
  IN  <<r.x, r.y, r.z>>
RotApply(R, v) == <<Dot(R[1], v), Dot(R[2], v), Dot(R[3], v)>>
Basis == {<<1, 0, 0>>, <<0, 1, 0>>, <<0, 0, 1>>}

\* C8: a target pose in the base frame is assigned whole: the frame built
\* has the message's position and rotates as the message's quaternion does,
\* and when the assignment completes m_target_frame is that frame.
C8_FrameReplacesTarget ==
  [][/\ \A target \in TargetMsgs :
          (target.frame_id = m_robot_base_link /\ targetFrameCallback(target))
            => /\ cb_pc' = "assign"
               /\ cb_frame'.p = target.position
               /\ \A v \in Basis :
                    RotApply(cb_frame'.M, v) = QuatRotate(target.orientation, v)
     /\ (hist.last_cb = "frame" /\ cb_pc = "assign" /\ cb_pc' = "idle")
          => m_target_frame' = cb_frame]_vars

\* a message has replaced both the rotation and the position
C8_Witness ==
  /\ hist.last_cb = "frame"
  /\ cb_pc = "idle"
  /\ state = "Running"
  /\ m_target_frame = PoseList[2]

\* the events of a cycle of n passes
RECURSIVE Passes(_)
Passes(n) == IF n = 0 THEN <<>> ELSE <<"error", "fd">> \o Passes(n - 1)

\* C9: update() makes exactly m_iterations passes (one for the
\* VelocityJointInterface), each a computeMotionError followed by a
\* forward-dynamics step, and then returns.
C9_FixedPasses ==
  /\ i <= LoopBound
  /\ (pc \in InCycle) => hist.log = Passes(i) \o (IF pc = "fd" THEN <<"error">> ELSE <<>>)
  /\ (pc = "idle" /\ hist.log # <<>>) => hist.log = Passes(LoopBound) \o <<"write">>

\* a single-step cycle has finished where two iterations are configured
C9_Witness ==
  /\ pc = "idle"
  /\ hw = "VelocityJointInterface"
  /\ m_iterations = 2
  /\ hist.log = <<"error", "fd", "write">>

\* C10: when starting() returns, m_target_frame is the pose the solver
\* reports at that start, whatever it held before.
C10_StartOverwritesTarget ==
  [][(pc = "starting" /\ pc' = "idle")
       => /\ state' = "Running"
          /\ m_target_frame' = solver_pose']_vars

\* a start after an earlier activation in which a cycle ran
C10_Witness ==
  /\ state = "Running"
  /\ hist.seeded
  /\ hist.log # <<>>
  /\ m_target_frame = PoseList[2]

\* the snapshots that are one whole sample: the message form of a pose the
\* solver reports (the snapshot no computation has filled yet is left to C18)
WholeSnapshot(s) ==
  \/ s.orientation = QNaN
  \/ \E P \in SolverPoses : s = poseKDLToMsg(P)

\* C11 (as claimed): the snapshot a twist callback reads is one whole
\* sample: its position and its orientation were written by the same
\* computeMotionError.
C11_SnapshotConsistent ==
  [][(\E twist \in Twists : targetTwistCallback(twist))
       => WholeSnapshot(current_pose)]_vars

\* C12 (as claimed): when targetFrameCallback returns and no twist callback
\* is in flight, m_target_frame is the whole frame of one of the two
\* producers: the one this callback built or the one the last twist built,
\* never the position of one with the orientation of the other.  (Stated
\* for twists applied to a published snapshot, so that the unset snapshot of
\* C18 plays no part.)
C12_LastWriterWins ==
  [][(cb_pc = "assign" /\ cb_pc' = "idle" /\ tw_pc' = "idle" /\ tw_frame.M # RNaN)
       => m_target_frame' \in {cb_frame, tw_frame}]_vars

\* the motion error of a (current, target) pair, lines 160-189
MotionError(current, target) ==
  ErrorVector([M |-> RotMul(target.M, RotInverse(current.M)),
               p |-> VSub(target.p, current.p)])

\* C13: with the handlers run one at a time, the error handed to the
\* forward-dynamics step is MotionError of the solver's pose and the target
\* alone: neither the pass number, nor earlier cycles, earlier snapshots or
\* earlier targets enter it, and two states with the same pair have the same
\* error.
C13_ErrorIsFunctionOfPair ==
  pc = "fd" => error = MotionError(solver_pose, m_target_frame)

\* a non-zero error in the second pass of a cycle, after an earlier pass
\* saw another pose
C13_Witness ==
  /\ pc = "fd"
  /\ i = 1
  /\ ~error.nan
  /\ error # ZeroError
  /\ solver_pose = PoseList[2]

\* distances and angles on both sides of the bounds
ClampInputs ==
  (-(max_distance + 2) .. (max_distance + 2)) \cup {-PI, -max_angle, max_angle, PI}

RECURSIVE Settle(_, _, _)
Settle(c, t, n) ==
  IF n = 0 THEN c ELSE Settle(advance(c, MotionError(c, t)), t, n - 1)

\* the squared length of the translation that is left
Residual(c, t) == Dot(VSub(t.p, c.p), VSub(t.p, c.p))

\* an iterative update() is about to run on a non-zero error
IterativeCycleStart ==
  /\ pc = "idle" /\ cb_pc = "idle" /\ state = "Running"
  /\ hw = "PositionJointInterface" /\ m_iterations > 1
  /\ MotionError(solver_pose, m_target_frame) # ZeroError

C16_OneSnapshotPerError ==
  [][/\ pc = "sample" => pc' = "publish"
     /\ (pc' = "readM" /\ pc # "readM") =>
          /\ pc = "publish"
          /\ m_current_frame = solver_pose
          /\ current_pose' = poseKDLToMsg(solver_pose)
     /\ pc = "readM" => pc' = "readP"
     /\ pc = "readP" => (pc' = "fd" /\ hist'.log = Append(hist.log, "error"))
     /\ pc = "write" => Count("error", hist.log) = LoopBound
     /\ current_pose' # current_pose => pc = "publish"
     /\ (\A twist \in Twists :
          (targetTwistCallback(twist) /\ QLength2(current_pose.orientation) = 1)
            => \E P \in SolverPoses : current_pose = poseKDLToMsg(P))]_vars

\* the second publication of an iterative cycle, of a pose other than the
\* first one
C16_Witness ==
  /\ pc = "readM"
  /\ i = 1
  /\ hw = "PositionJointInterface"
  /\ current_pose = poseKDLToMsg(PoseList[2])

\* C17: with the solver that settles and update() called again and again,
\* every error fed is within the bounds, and a target that stays where it is
\* while the controller runs is reached: from some point on the solver's
\* pose is the target and the motion error is zero, however far the target
\* was.
C17_ResidualDeferred ==
  /\ [](pc = "fd" => Bounded(error))
  /\ \A T \in SettlePoses :
       <>[](state = "Running" /\ m_target_frame = T)
         => <>[](solver_pose = T /\ (pc = "fd" => error = ZeroError))

\* a later single-step cycle working on what the clamp left over: one unit
\* of a target that was two units away
C17_Witness ==
  /\ pc = "fd"
  /\ hw = "VelocityJointInterface"
  /\ m_target_frame.p = <<2, 0, 0>>
  /\ solver_pose.p = <<1, 0, 0>>
  /\ error.lin = <<1, 0, 0>>

\* C18 (as claimed): a twist callback that runs after starting() and before
\* any forward-dynamics step or other target update reads the pose sampled
\* in starting(), and the frame it assigns is that pose plus the twist.
C18_SnapshotAfterStart ==
  [][\A twist \in Twists :
       (targetTwistCallback(twist) /\ hist.seeded)
         => /\ current_pose = poseKDLToMsg(solver_pose)
            /\ cb_frame'.p = VAdd(solver_pose.p, twist.linear)
            /\ cb_frame'.M = RotMul(RpyRotation(twist.angular), solver_pose.M)]_vars

\* C19: no step of update() or of computeMotionError changes
\* m_target_frame, so with no callback in between the target after an
\* update() is the target before it; m_target_frame changes only in the
\* assignment of starting() and in the assignment of an accepted callback.
C19_UpdateKeepsTarget ==
  [][/\ (pc \in InCycle \/ pc' \in InCycle) => m_target_frame' = m_target_frame
     /\ m_target_frame' # m_target_frame =>
          \/ /\ pc = "starting"
             /\ \E f \in {"M", "p"} :
                  m_target_frame' = [m_target_frame EXCEPT ![f] = solver_pose[f]]
          \/ cb_pc = "assign" /\ hist.last_cb \in {"frame", "twist"}]_vars

\* a cycle of two passes is about to return with its target, two units
\* from where the solver is, still in place
C19_Witness ==
  /\ pc = "write"
  /\ Len(hist.log) = 4
  /\ m_target_frame = PoseList[3]
  /\ solver_pose = PoseList[1]
====
